---- MODULE Spec2Model ----
(***************************************************************************)
(* The minigrep utility of the repository: Config::new and run of          *)
(* src/minigrep/src/lib.rs, driven by the two process entries              *)
(* src/minigrep/src/main.rs and src/12_minigrep/src/main.rs; then add and  *)
(* Rectangle::can_hold of src/adder/src/lib.rs and the loop of             *)
(* src/guessing_game/src/main.rs, each under a specification of its own.   *)
(*                                                                         *)
(* Text is a TLA+ string.  A stream (standard output, error stream) is the *)
(* sequence of the pieces written to it, in order; StreamText is the text  *)
(* the stream holds.  The filesystem maps a path to the outcome a read of  *)
(* that path has.                                                          *)
(*                                                                         *)
(* Assumed of the environment: every command-line argument is valid        *)
(* Unicode (env::args panics otherwise), the streams accept every write    *)
(* (println! panics otherwise), and files are regular files, so that a     *)
(* read returns.                                                           *)
(***************************************************************************)
EXTENDS Integers, Sequences, FiniteSets, TLC

\* Longest command line explored (number of tokens, program name included).
MaxArgs == 4

\* Most calls of one library function explored by the library specification.
MaxCalls == 2

\* The tokens a command line is drawn from.
Tokens == {"prog", "hello", "poem.txt", ""}

\* The paths that may name a file; the empty path names none.
Paths == Tokens \ {""}

\* ---------------------------------------------------------------- values

\* Result<T, E> as a record that always has the three fields.
NoValue == [none |-> TRUE]

Ok(v) == [kind |-> "Ok", val |-> v, err |-> ""]

Err(e) == [kind |-> "Err", val |-> NoValue, err |-> e]

\* The unit value ().
Unit == "()"

\* Option<T> as a sequence of at most one value.
None == <<>>

Some(v) == <<v>>

\* struct Config { query, filename }
Config(q, f) == [query |-> q, filename |-> f]

\* What a read of a path finds: readable valid text, or a platform failure.
FileText(c) == [kind |-> "Text", contents |-> c]

FileFails(k) == [kind |-> k, contents |-> ""]

IoErrorKinds == {"NotFound", "PermissionDenied", "InvalidData"}

FileStates ==
    {FileText("Roses are red"), FileText("hello\n")}
        \cup {FileFails(k) : k \in IoErrorKinds}

Filesystems == [Paths -> FileStates]

\* All command lines of at most n tokens.
ArgLists(n) == UNION {[1..k -> Tokens] : k \in 0..n}

\* The text a stream holds: its pieces, concatenated.
RECURSIVE StreamText(_)
StreamText(s) == IF s = <<>> THEN "" ELSE Head(s) \o StreamText(Tail(s))

\* ------------------------------------------------------------- library

\* Config::new with the length test off by one: two tokens pass the test
\* and the index args[2] is out of bounds.
Config_new_lt2(a) ==
    IF Len(a) < 2
    THEN Err("not enough arguments")
    ELSE IF Len(a) = 2
         THEN [kind |-> "Panic", val |-> NoValue, err |-> "index out of bounds"]
         ELSE Ok(Config(a[2], a[3]))

\* Config::new with the two fields taken from each other's token.
Config_new_swapped(a) ==
    IF Len(a) < 3
    THEN Err("not enough arguments")
    ELSE Ok(Config(a[3], a[2]))

\* Config::new(args: &[String]) -> Result<Config, &str>.
\* Rust's args[1], args[2] are the TLA+ args[2], args[3].
Config_new(a) ==
    IF Len(a) < 3
    THEN Err("not enough arguments")
    ELSE Ok(Config(a[2], a[3]))

\* fs::read_to_string(path): the whole file as text, or the io::Error.
read_to_string(filesystem, path) ==
    IF path \notin DOMAIN filesystem
    THEN Err("NotFound")
    ELSE IF filesystem[path].kind = "Text"
         THEN Ok(filesystem[path].contents)
         ELSE Err(filesystem[path].kind)

\* print! in place of println!: no newline ends the output.
print(before, x) == <<before, x>>

\* println!(fmt, x): the pieces of the format string around its one
\* argument, and the newline println! ends with.
println(before, x) == <<before, x, "\n">>

\* run with the read's failure swallowed (unwrap_or_default in place of ?).
run_unwrap_or_default(c, filesystem) ==
    LET contents == read_to_string(filesystem, c.filename)
        text == IF contents.kind = "Err" THEN "" ELSE contents.val
    IN  [ret |-> Ok(Unit), contents |-> Some(text),
         out |-> println("With text:\n", text),
         reads |-> <<c.filename>>]

\* run with the label line printed before the file is read.
run_label_first(c, filesystem) ==
    LET contents == read_to_string(filesystem, c.filename)
    IN  IF contents.kind = "Err"
        THEN [ret |-> Err(contents.err), contents |-> None,
              out |-> <<"With text:\n">>, reads |-> <<c.filename>>]
        ELSE [ret |-> Ok(Unit), contents |-> Some(contents.val),
              out |-> <<"With text:\n", contents.val, "\n">>,
              reads |-> <<c.filename>>]

\* run reading the file named by the query field.
run_reads_query(c, filesystem) ==
    LET contents == read_to_string(filesystem, c.query)
    IN  IF contents.kind = "Err"
        THEN [ret |-> Err(contents.err), contents |-> None,
              out |-> <<>>, reads |-> <<c.query>>]
        ELSE [ret |-> Ok(Unit), contents |-> Some(contents.val),
              out |-> println("With text:\n", contents.val),
              reads |-> <<c.query>>]

\* run printing the label line without the contents.
run_label_only(c, filesystem) ==
    LET contents == read_to_string(filesystem, c.filename)
    IN  IF contents.kind = "Err"
        THEN [ret |-> Err(contents.err), contents |-> None,
              out |-> <<>>, reads |-> <<c.filename>>]
        ELSE [ret |-> Ok(Unit), contents |-> Some(contents.val),
              out |-> println("With text:", ""),
              reads |-> <<c.filename>>]

\* run(config) -> Result<(), Box<dyn Error>>: what the call returns (ret),
\* the local `contents`, the pieces it writes to standard output and the
\* paths it reads.
run(c, filesystem) ==
    LET contents == read_to_string(filesystem, c.filename)
    IN  IF contents.kind = "Err"
        THEN [ret |-> Err(contents.err), contents |-> None,
              out |-> <<>>, reads |-> <<c.filename>>]
        ELSE [ret |-> Ok(Unit), contents |-> Some(contents.val),
              out |-> println("With text:\n", contents.val),
              reads |-> <<c.filename>>]

\* Display of the io::Error behind the Box<dyn Error>: the platform's
\* description of the failure.
Display(e) ==
    CASE e = "NotFound" -> "No such file or directory (os error 2)"
      [] e = "PermissionDenied" -> "Permission denied (os error 13)"
      [] e = "InvalidData" -> "stream did not contain valid UTF-8"
      [] OTHER -> e

\* --------------------------------------- library of src/12_minigrep
\* src/12_minigrep/src/main.rs calls Config::new(env::args()) and
\* minigrep::run(config) of a library whose source the repository does not
\* hold; both are taken from the specification's sections 4.1 to 4.3.

\* build(args) -> Configuration, fails with ConfigError (section 4.1).
Config_new_iter(a) ==
    IF Len(a) >= 3
    THEN Ok(Config(a[2], a[3]))
    ELSE Err("not enough arguments")

\* load(config) (section 4.2), and the label line and contents written to
\* standard output on success (section 4.3).
run_12(c, filesystem) ==
    LET contents == read_to_string(filesystem, c.filename)
    IN  IF contents.kind = "Ok"
        THEN [ret |-> Ok(Unit), contents |-> Some(contents.val),
              out |-> <<"With text:\n", contents.val>>,
              reads |-> <<c.filename>>]
        ELSE [ret |-> Err(contents.err), contents |-> None,
              out |-> <<>>, reads |-> <<c.filename>>]

\* ---------------------------------------------------------------- state

VARIABLES
    binary,    \* which crate's main runs: "minigrep", "12_minigrep", "lib"
    argv,      \* the command line the process was started with
    fs,        \* the filesystem
    pc,        \* position in main
    args,      \* main's local `args` (src/minigrep/src/main.rs:8)
    config,    \* main's local `config`, NoValue until built
    stdout,    \* pieces written to standard output
    stderr,    \* pieces written to the error stream
    exitCode,  \* the process's exit code, NoValue while it runs
    fsLog,     \* filesystem accesses so far: <<operation, path>>
    newLog,    \* the result of every call of Config::new so far
    runLog     \* the record of every call of run so far

\* The state of the other crates of the repository, idle while minigrep runs.
VARIABLES
    self,             \* src/adder: the Rectangle can_hold is called on
    other,            \* src/adder: the Rectangle passed to can_hold
    holds,            \* src/adder: the results of the calls of can_hold so far
    left,             \* src/adder: add's first argument
    right,            \* src/adder: add's second argument
    sums,             \* src/adder: the results of the calls of add so far
    overflow_checks,  \* src/adder: whether the build checks arithmetic overflow
    secret_number,    \* src/guessing_game: main's `secret_number`, None until drawn
    guess,            \* src/guessing_game: main's parsed `guess` of the last round
    rounds            \* src/guessing_game: the lines read so far, one per round

adderVars == <<self, other, holds, left, right, sums, overflow_checks>>

gameVars == <<secret_number, guess, rounds>>

vars == <<binary, argv, fs, pc, args, config, stdout, stderr, exitCode,
          fsLog, newLog, runLog, adderVars, gameVars>>

AdderIdle ==
    /\ self = NoValue
    /\ other = NoValue
    /\ holds = <<>>
    /\ left = 0
    /\ right = 0
    /\ sums = <<>>
    /\ overflow_checks = FALSE

GameIdle ==
    /\ secret_number = <<>>
    /\ guess = <<>>
    /\ rounds = <<>>

InitProcess ==
    /\ argv \in ArgLists(MaxArgs)
    /\ fs \in Filesystems
    /\ args = <<>>
    /\ config = NoValue
    /\ stdout = <<>>
    /\ stderr = <<>>
    /\ exitCode = NoValue
    /\ fsLog = <<>>
    /\ newLog = <<>>
    /\ runLog = <<>>

Init ==
    /\ binary \in {"minigrep", "12_minigrep"}
    /\ pc = "start"
    /\ InitProcess
    /\ AdderIdle
    /\ GameIdle

\* process::exit(code)
exit(code) ==
    /\ exitCode' = code
    /\ pc' = "exited"

\* ------------------------------------------- src/minigrep/src/main.rs

\* let args = env::args().collect::<Vec<_>>();
main_collect ==
    /\ binary = "minigrep"
    /\ pc = "start"
    /\ args' = argv
    /\ pc' = "new"
    /\ UNCHANGED <<binary, argv, fs, config, stdout, stderr, exitCode,
                   fsLog, newLog, runLog,
                   adderVars, gameVars>>

\* main with a closure that reports the error and goes on with an empty
\* Config instead of ending the process.
main_new_no_exit ==
    /\ binary = "minigrep"
    /\ pc = "new"
    /\ LET r == Config_new(args)
       IN  /\ newLog' = Append(newLog, r)
           /\ pc' = "run"
           /\ IF r.kind = "Ok"
              THEN /\ config' = r.val
                   /\ UNCHANGED stdout
              ELSE /\ stdout' = stdout \o println("Problem parsing arguments: ", r.err)
                   /\ config' = Config("", "")
    /\ UNCHANGED <<binary, argv, fs, args, stderr, exitCode, fsLog, runLog,
                   adderVars, gameVars>>

\* let config = Config::new(&args).unwrap_or_else(|err| { println!; exit(1) });
main_new ==
    /\ binary = "minigrep"
    /\ pc = "new"
    /\ LET r == Config_new(args)
       IN  /\ newLog' = Append(newLog, r)
           /\ IF r.kind = "Ok"
              THEN /\ config' = r.val
                   /\ pc' = "run"
                   /\ UNCHANGED <<stdout, exitCode>>
              ELSE /\ stdout' = stdout \o println("Problem parsing arguments: ", r.err)
                   /\ exit(1)
                   /\ UNCHANGED config
    /\ UNCHANGED <<binary, argv, fs, args, stderr, fsLog, runLog,
                   adderVars, gameVars>>

\* main that drops the Config it built and never calls run.
main_run_not_called ==
    /\ binary = "minigrep"
    /\ pc = "run"
    /\ pc' = "return"
    /\ UNCHANGED <<binary, argv, fs, args, config, stdout, stderr, exitCode,
                   fsLog, newLog, runLog,
                   adderVars, gameVars>>

\* main trying run a second time when the first call fails.
main_run_retry ==
    /\ binary = "minigrep"
    /\ pc = "run"
    /\ LET r == run(config, fs)
       IN  /\ runLog' = Append(runLog, r)
           /\ fsLog' = fsLog \o [i \in 1..Len(r.reads) |-> <<"read", r.reads[i]>>]
           /\ IF r.ret.kind = "Err"
              THEN IF runLog = <<>>
                   THEN /\ pc' = "run"
                        /\ UNCHANGED <<stdout, exitCode>>
                   ELSE /\ stdout' = stdout \o r.out
                                       \o println("Application error: ", Display(r.ret.err))
                        /\ exit(1)
              ELSE /\ stdout' = stdout \o r.out
                   /\ pc' = "return"
                   /\ UNCHANGED exitCode
    /\ UNCHANGED <<binary, argv, fs, args, config, stderr, newLog,
                   adderVars, gameVars>>

\* if let Err(e) = minigrep::run(config) { println!; exit(1) }
main_run ==
    /\ binary = "minigrep"
    /\ pc = "run"
    /\ LET r == run(config, fs)
       IN  /\ runLog' = Append(runLog, r)
           /\ fsLog' = fsLog \o [i \in 1..Len(r.reads) |-> <<"read", r.reads[i]>>]
           /\ IF r.ret.kind = "Err"
              THEN /\ stdout' = stdout \o r.out
                                  \o println("Application error: ", Display(r.ret.err))
                   /\ exit(1)
              ELSE /\ stdout' = stdout \o r.out
                   /\ pc' = "return"
                   /\ UNCHANGED exitCode
    /\ UNCHANGED <<binary, argv, fs, args, config, stderr, newLog,
                   adderVars, gameVars>>

\* main returns: the process ends with the default exit code.
main_return ==
    /\ binary = "minigrep"
    /\ pc = "return"
    /\ exit(0)
    /\ UNCHANGED <<binary, argv, fs, args, config, stdout, stderr,
                   fsLog, newLog, runLog,
                   adderVars, gameVars>>

\* ---------------------------------------- src/12_minigrep/src/main.rs

\* let config = Config::new(env::args()).unwrap_or_else(|err| { eprintln!; exit(1) });
main12_new ==
    /\ binary = "12_minigrep"
    /\ pc = "start"
    /\ LET r == Config_new_iter(argv)
       IN  /\ newLog' = Append(newLog, r)
           /\ IF r.kind = "Ok"
              THEN /\ config' = r.val
                   /\ pc' = "run"
                   /\ UNCHANGED <<stderr, exitCode>>
              ELSE /\ stderr' = stderr \o println("Problem parsing arguments: ", r.err)
                   /\ exit(1)
                   /\ UNCHANGED config
    /\ UNCHANGED <<binary, argv, fs, args, stdout, fsLog, runLog,
                   adderVars, gameVars>>

\* if let Err(e) = minigrep::run(config) { eprintln!; exit(1) }
main12_run ==
    /\ binary = "12_minigrep"
    /\ pc = "run"
    /\ LET r == run_12(config, fs)
       IN  /\ runLog' = Append(runLog, r)
           /\ fsLog' = fsLog \o [i \in 1..Len(r.reads) |-> <<"read", r.reads[i]>>]
           /\ stdout' = stdout \o r.out
           /\ IF r.ret.kind = "Err"
              THEN /\ stderr' = stderr \o println("Application error: ", Display(r.ret.err))
                   /\ exit(1)
              ELSE /\ pc' = "return"
                   /\ UNCHANGED <<stderr, exitCode>>
    /\ UNCHANGED <<binary, argv, fs, args, config, newLog,
                   adderVars, gameVars>>

\* main returns: the process ends with the default exit code.
main12_return ==
    /\ binary = "12_minigrep"
    /\ pc = "return"
    /\ exit(0)
    /\ UNCHANGED <<binary, argv, fs, args, config, stdout, stderr,
                   fsLog, newLog, runLog,
                   adderVars, gameVars>>

\* ------------------------------------------------- the library, called
\* Config::new and run are public: a caller may build a Config from the
\* same arguments and run it any number of times.  run takes its Config by
\* value, so every call of run consumes the Config built before it.

LibInit ==
    /\ binary = "lib"
    /\ pc = "lib"
    /\ InitProcess
    /\ AdderIdle
    /\ GameIdle

lib_Config_new ==
    /\ binary = "lib"
    /\ Len(newLog) < MaxCalls
    /\ LET r == Config_new(argv)
       IN  /\ newLog' = Append(newLog, r)
           /\ config' = IF r.kind = "Ok" THEN r.val ELSE config
    /\ UNCHANGED <<binary, argv, fs, pc, args, stdout, stderr, exitCode,
                   fsLog, runLog,
                   adderVars, gameVars>>

lib_run ==
    /\ binary = "lib"
    /\ config # NoValue
    /\ Len(runLog) < MaxCalls
    /\ LET r == run(config, fs)
       IN  /\ runLog' = Append(runLog, r)
           /\ fsLog' = fsLog \o [i \in 1..Len(r.reads) |-> <<"read", r.reads[i]>>]
           /\ stdout' = stdout \o r.out
    /\ config' = NoValue
    /\ UNCHANGED <<binary, argv, fs, pc, args, stderr, exitCode, newLog,
                   adderVars, gameVars>>

LibNext ==
    \/ lib_Config_new
    \/ lib_run

LibSpec == LibInit /\ [][LibNext]_vars

Next ==
    \/ main_collect
    \/ main_new
    \/ main_run
    \/ main_return
    \/ main12_new
    \/ main12_run
    \/ main12_return

Spec == Init /\ [][Next]_vars

\* A process that can take a step takes it.
FairSpec == Spec /\ WF_vars(Next)

\* ------------------------------------------------ src/adder/src/lib.rs

\* Longest side of the rectangles explored, beside those of the tests.
MaxSide == 3

\* struct Rectangle { height: u32, width: u32 }
Rectangle(h, w) == [height |-> h, width |-> w]

\* The rectangles of tests::larger_can_hold_smaller and
\* tests::smaller_cannot_hold_larger.
larger == Rectangle(8, 7)

smaller == Rectangle(5, 1)

Rectangles ==
    {Rectangle(h, w) : h \in 0..MaxSide, w \in 0..MaxSide} \cup {larger, smaller}

\* can_hold with the comparisons not strict.
can_hold_ge(s, o) == s.height >= o.height /\ s.width >= o.width

\* Rectangle::can_hold(&self, other: &Rectangle) -> bool
can_hold(s, o) == s.height > o.height /\ s.width > o.width

\* The calls explored: self.can_hold(&other), other.can_hold(&self) and
\* self.can_hold(&self).
RectCalls == {"self_other", "other_self", "self_self"}

Receiver(call) == IF call = "other_self" THEN other ELSE self

Argument(call) == IF call = "self_other" THEN other ELSE self

\* The state every crate but the one running is in.
MinigrepIdle ==
    /\ argv = <<>>
    /\ fs = [p \in Paths |-> FileFails("NotFound")]
    /\ args = <<>>
    /\ config = NoValue
    /\ stdout = <<>>
    /\ stderr = <<>>
    /\ exitCode = NoValue
    /\ fsLog = <<>>
    /\ newLog = <<>>
    /\ runLog = <<>>

RectInit ==
    /\ binary = "adder"
    /\ pc = "lib"
    /\ MinigrepIdle
    /\ GameIdle
    /\ self \in Rectangles
    /\ other \in Rectangles
    /\ holds = [c \in RectCalls |-> None]
    /\ left = 0
    /\ right = 0
    /\ sums = <<>>
    /\ overflow_checks = FALSE

\* One call of can_hold, its result kept.
rect_can_hold(call) ==
    /\ binary = "adder"
    /\ holds[call] = None
    /\ holds' = [holds EXCEPT ![call] = Some(can_hold(Receiver(call), Argument(call)))]
    /\ UNCHANGED <<binary, argv, fs, pc, args, config, stdout, stderr, exitCode,
                   fsLog, newLog, runLog, self, other, left, right, sums,
                   overflow_checks, gameVars>>

RectNext == \E call \in RectCalls : rect_can_hold(call)

RectSpec == RectInit /\ [][RectNext]_vars

\* Width in bits of the machine word usize is modelled with.
UsizeBits == 4

\* usize::MAX
UsizeMax == 2 ^ UsizeBits - 1

\* What an arithmetic expression evaluates to: a value, or a panic.
Value(n) == [kind |-> "Ok", val |-> n]

Panic == [kind |-> "Panic", val |-> 0]

\* add with the operands multiplied.
add_mul(l, r) ==
    IF l * r <= UsizeMax
    THEN Value(l * r)
    ELSE IF overflow_checks
         THEN Panic
         ELSE Value((l * r) % (2 ^ UsizeBits))

\* add(left: usize, right: usize) -> usize { left + right }: the sum when it
\* fits the word; otherwise a panic in a build that checks overflow and the
\* wrapped sum in one that does not.
add(l, r) ==
    IF l + r <= UsizeMax
    THEN Value(l + r)
    ELSE IF overflow_checks
         THEN Panic
         ELSE Value((l + r) % (2 ^ UsizeBits))

\* The calls explored: add(left, right), add(right, left), add(left, 0)
\* and add(0, left).
AddCalls == {"left_right", "right_left", "left_zero", "zero_left"}

FirstArg(call) ==
    CASE call = "left_right" -> left
      [] call = "right_left" -> right
      [] call = "left_zero" -> left
      [] call = "zero_left" -> 0

SecondArg(call) ==
    CASE call = "left_right" -> right
      [] call = "right_left" -> left
      [] call = "left_zero" -> 0
      [] call = "zero_left" -> left

AddInit ==
    /\ binary = "adder"
    /\ pc = "lib"
    /\ MinigrepIdle
    /\ GameIdle
    /\ self = NoValue
    /\ other = NoValue
    /\ holds = <<>>
    /\ left \in 0..UsizeMax
    /\ right \in 0..UsizeMax
    /\ sums = [c \in AddCalls |-> None]
    /\ overflow_checks \in BOOLEAN

\* One call of add, its result kept.
add_call(call) ==
    /\ binary = "adder"
    /\ sums[call] = None
    /\ sums' = [sums EXCEPT ![call] = Some(add(FirstArg(call), SecondArg(call)))]
    /\ UNCHANGED <<binary, argv, fs, pc, args, config, stdout, stderr, exitCode,
                   fsLog, newLog, runLog, self, other, holds, left, right,
                   overflow_checks, gameVars>>

AddNext == \E call \in AddCalls : add_call(call)

AddSpec == AddInit /\ [][AddNext]_vars

\* ------------------------------------- src/guessing_game/src/main.rs
\* A line of input is the sequence of its characters.  Assumed of the
\* environment: standard input is valid UTF-8 (read_line's expect panics
\* otherwise) and standard output accepts every write.

\* Most rounds of the loop explored.
MaxRounds == 3

\* The bounds given to gen_range: low inclusive, high exclusive.
SecretLow == 1

SecretHigh == 101

\* i32::MAX and i32::MIN
I32Max == 2147483647

I32Min == -I32Max - 1

\* rand::thread_rng().gen_range(low, high): any value of low..high-1.
gen_range(low, high) == low..(high - 1)

\* The lines standard input is drawn from; the empty line is what
\* read_line leaves in `guess` at end of input.
Lines ==
    { <<"5", "0", "\n">>,
      <<" ", "7", " ", "\n">>,
      <<"1", "0", "1", "\n">>,
      <<"0", "\n">>,
      <<"-", "3", "\n">>,
      <<"+", "5", "0", "\n">>,
      <<"a", "b", "c", "\n">>,
      <<"\n">>,
      <<>>,
      <<"9", "9", "9", "9", "9", "9", "9", "9", "9", "9", "9", "\n">> }

Whitespace == {" ", "\n", "\r", "\t"}

DigitValue ==
    [c \in {"0", "1", "2", "3", "4", "5", "6", "7", "8", "9"} |->
        CASE c = "0" -> 0 [] c = "1" -> 1 [] c = "2" -> 2 [] c = "3" -> 3
          [] c = "4" -> 4 [] c = "5" -> 5 [] c = "6" -> 6 [] c = "7" -> 7
          [] c = "8" -> 8 [] c = "9" -> 9]

\* str::trim: the line without its leading and trailing whitespace.
RECURSIVE trim_start(_)
trim_start(s) ==
    IF s # <<>> /\ Head(s) \in Whitespace THEN trim_start(Tail(s)) ELSE s

RECURSIVE trim_end(_)
trim_end(s) ==
    IF s # <<>> /\ s[Len(s)] \in Whitespace
    THEN trim_end(SubSeq(s, 1, Len(s) - 1))
    ELSE s

trim(s) == trim_end(trim_start(s))

\* The digits of str::parse::<i32>, accumulated with checked arithmetic:
\* upwards for a positive number, downwards for a negative one.
RECURSIVE parse_digits(_, _, _)
parse_digits(s, acc, positive) ==
    IF s = <<>>
    THEN Ok(acc)
    ELSE IF Head(s) \notin DOMAIN DigitValue
         THEN Err("InvalidDigit")
         ELSE LET d == DigitValue[Head(s)]
              IN  IF positive
                  THEN IF acc > (I32Max - d) \div 10
                       THEN Err("PosOverflow")
                       ELSE parse_digits(Tail(s), acc * 10 + d, TRUE)
                  ELSE IF acc < -(I32Max \div 10) \/ acc * 10 < I32Min + d
                       THEN Err("NegOverflow")
                       ELSE parse_digits(Tail(s), acc * 10 - d, FALSE)

\* str::parse::<i32>: an optional sign and at least one digit.
parse(s) ==
    IF s = <<>>
    THEN Err("Empty")
    ELSE IF s = <<"+">> \/ s = <<"-">>
         THEN Err("InvalidDigit")
         ELSE IF Head(s) = "+"
              THEN parse_digits(Tail(s), 0, TRUE)
              ELSE IF Head(s) = "-"
                   THEN parse_digits(Tail(s), 0, FALSE)
                   ELSE parse_digits(s, 0, TRUE)

\* println! of a literal.
println0(text) == <<text, "\n">>

\* i32::cmp
cmp(a, b) == IF a < b THEN "Less" ELSE IF a > b THEN "Greater" ELSE "Equal"

\* The match with the messages of Less and Greater exchanged.
match_cmp_swapped(g, secret) ==
    CASE cmp(g, secret) = "Less" -> [out |-> println0("Too big!"), break |-> FALSE]
      [] cmp(g, secret) = "Greater" -> [out |-> println0("Too small!"), break |-> FALSE]
      [] cmp(g, secret) = "Equal" -> [out |-> println0("You win!"), break |-> TRUE]

\* match guess.cmp(&secret_number) { ... }: what the arm prints and whether
\* it breaks out of the loop.
match_cmp(g, secret) ==
    CASE cmp(g, secret) = "Less" -> [out |-> println0("Too small!"), break |-> FALSE]
      [] cmp(g, secret) = "Greater" -> [out |-> println0("Too big!"), break |-> FALSE]
      [] cmp(g, secret) = "Equal" -> [out |-> println0("You win!"), break |-> TRUE]

GameInit ==
    /\ binary = "guessing_game"
    /\ pc = "start"
    /\ MinigrepIdle
    /\ AdderIdle
    /\ GameIdle

\* main up to the loop: the greeting, the secret number drawn and printed.
game_start ==
    /\ binary = "guessing_game"
    /\ pc = "start"
    /\ \E n \in gen_range(SecretLow, SecretHigh) :
          /\ secret_number' = Some(n)
          /\ stdout' = stdout \o println0("Guess the number!")
                              \o println("The secret number is: ", ToString(n))
    /\ pc' = "loop"
    /\ UNCHANGED <<binary, argv, fs, args, config, stderr, exitCode,
                   fsLog, newLog, runLog, adderVars, guess, rounds>>

\* One iteration of the loop on the line read_line returns.
game_round(line) ==
    /\ binary = "guessing_game"
    /\ pc = "loop"
    /\ Len(rounds) < MaxRounds
    /\ rounds' = Append(rounds, line)
    /\ LET prompt == println0("Please input your guess.")
           parsed == parse(trim(line))
       IN  IF parsed.kind = "Err"
           THEN /\ guess' = None
                /\ stdout' = stdout \o prompt
                /\ pc' = "loop"
           ELSE LET arm == match_cmp(parsed.val, secret_number[1])
                IN  /\ guess' = Some(parsed.val)
                    /\ stdout' = stdout \o prompt
                                    \o println("You guessed: ", ToString(parsed.val))
                                    \o arm.out
                    /\ pc' = IF arm.break THEN "return" ELSE "loop"
    /\ UNCHANGED <<binary, argv, fs, args, config, stderr, exitCode,
                   fsLog, newLog, runLog, adderVars, secret_number>>

\* main returns after the break.
game_return ==
    /\ binary = "guessing_game"
    /\ pc = "return"
    /\ exit(0)
    /\ UNCHANGED <<binary, argv, fs, args, config, stdout, stderr,
                   fsLog, newLog, runLog, adderVars, gameVars>>

GameNext ==
    \/ game_start
    \/ \E line \in Lines : game_round(line)
    \/ game_return

GameSpec == GameInit /\ [][GameNext]_vars

\* ================================================================ claims

\* The range of a sequence.
Range(s) == {s[i] : i \in 1..Len(s)}

\* C1: for every argument sequence of fewer than 3 tokens, every call of
\* Config::new fails with the message "not enough arguments" and no
\* Config value exists.
C1_NotEnoughArguments ==
    Len(argv) < 3 =>
        /\ \A i \in 1..Len(newLog) : newLog[i] = Err("not enough arguments")
        /\ config = NoValue

\* Config::new has been called on a command line of two tokens.
C1_Witness ==
    /\ Len(argv) = 2
    /\ newLog # <<>>

\* C2: for every argument sequence of 3 or more tokens, every call of
\* Config::new succeeds with query = token 1 and filename = token 2,
\* whatever token 0 and the tokens after index 2 are, the empty string
\* included.
C2_QueryAndFilename ==
    Len(argv) >= 3 =>
        \A i \in 1..Len(newLog) :
            /\ newLog[i].kind = "Ok"
            /\ newLog[i].val.query = argv[2]
            /\ newLog[i].val.filename = argv[3]
            /\ newLog[i].val = Config(argv[2], argv[3])

\* Config::new has succeeded on four tokens with an empty query and a
\* filename that differs from it.
C2_Witness ==
    /\ Len(argv) = 4
    /\ argv[2] = ""
    /\ argv[3] = "poem.txt"
    /\ newLog # <<>>
    /\ config = Config("", "poem.txt")

\* The process has ended.
Exited == pc = "exited"

\* The one call of Config::new the process makes has failed.
ConfigFailed == newLog # <<>> /\ newLog[1].kind = "Err"

\* A read of the path finds readable, valid text.
Readable(path) == path \in DOMAIN fs /\ fs[path].kind = "Text"

\* The platform's reason why a read of the path fails.
FailureOf(path) == IF path \in DOMAIN fs THEN fs[path].kind ELSE "NotFound"

\* C3: in every run where Config::new fails, the process ends with exit
\* code 1 and neither run is called nor a file read; a file is read only
\* after a Config has been built.
C3_NoReadAfterConfigError ==
    /\ ConfigFailed =>
          /\ Exited
          /\ exitCode = 1
          /\ runLog = <<>>
          /\ fsLog = <<>>
    /\ (fsLog # <<>> \/ runLog # <<>>) =>
          /\ newLog # <<>>
          /\ newLog[1].kind = "Ok"
          /\ config = newLog[1].val

\* The process has ended after Config::new failed on a lone program name.
C3_Witness ==
    /\ argv = <<"prog">>
    /\ ConfigFailed
    /\ Exited

\* The diagnostic line the failed process owes the error stream.
Diagnostic ==
    IF ConfigFailed
    THEN "Problem parsing arguments: " \o newLog[1].err \o "\n"
    ELSE "Application error: " \o Display(FailureOf(argv[3])) \o "\n"

\* C4: a process that ends in failure has written exactly its one
\* diagnostic line to the error stream and nothing to standard output;
\* standard output is written only on success.
C4_DiagnosticOnErrorStream ==
    /\ (Exited /\ exitCode = 1) =>
          /\ StreamText(stderr) = Diagnostic
          /\ stdout = <<>>
    /\ stdout # <<>> => (Len(argv) >= 3 /\ Readable(argv[3]))

\* C5: the process exits with code 0 exactly when the command line has at
\* least 3 tokens and the file named by token 2 is readable text; every
\* other ended run has exit code 1.
C5_ExitCode ==
    Exited =>
        /\ exitCode \in {0, 1}
        /\ exitCode = 0 <=> (Len(argv) >= 3 /\ Readable(argv[3]))
        /\ exitCode = 1 <=> (Len(argv) < 3 \/ ~Readable(argv[3]))

\* The process has ended with exit code 1 because the file is missing.
C5_Witness ==
    /\ Exited
    /\ exitCode = 1
    /\ Len(argv) >= 3
    /\ FailureOf(argv[3]) = "NotFound"

\* The command line and file of the specification's success scenario.
Scenario ==
    /\ argv = <<"prog", "hello", "poem.txt">>
    /\ fs["poem.txt"] = FileText("Roses are red")

\* C6 as stated: in the success scenario the ended process has exit code 0
\* and its standard output is "With text:\nRoses are red" and nothing else.
C6_Original ==
    (Scenario /\ Exited) =>
        /\ exitCode = 0
        /\ StreamText(stdout) = "With text:\nRoses are red"

\* C6, amended: when both stages succeed, the standard output of the
\* process of src/minigrep is the label line "With text:", the verbatim
\* file contents and the newline println! ends with, and nothing else; in
\* the scenario it is "With text:\nRoses are red\n" with exit code 0.
C6_SuccessOutput ==
    (binary = "minigrep" /\ Exited) =>
        /\ (Len(argv) >= 3 /\ Readable(argv[3])) =>
              /\ exitCode = 0
              /\ StreamText(stdout) =
                    "With text:\n" \o fs[argv[3]].contents \o "\n"
        /\ Scenario =>
              /\ exitCode = 0
              /\ StreamText(stdout) = "With text:\nRoses are red\n"

\* The process of src/minigrep has ended in the success scenario.
C6_Witness ==
    /\ binary = "minigrep"
    /\ Scenario
    /\ Exited
    /\ stdout # <<>>

\* C7: when the read in run fails, run returns the error carrying the
\* platform's reason and no contents, and neither the label "With text:"
\* nor the contents of any file is ever written to either stream.
C7_ReadFailure ==
    (runLog # <<>> /\ ~Readable(argv[3])) =>
        /\ \A i \in 1..Len(runLog) :
              /\ runLog[i].ret = Err(FailureOf(argv[3]))
              /\ runLog[i].contents = None
              /\ runLog[i].out = <<>>
        /\ \A piece \in Range(stdout) \cup Range(stderr) :
              /\ piece # "With text:\n"
              /\ \A p \in Paths : Readable(p) => piece # fs[p].contents

\* run has failed on a file that is not valid text while another file is
\* readable, and the process has ended.
C7_Witness ==
    /\ runLog # <<>>
    /\ FailureOf(argv[3]) = "InvalidData"
    /\ \E p \in Paths : Readable(p)
    /\ Exited

\* C8: the filesystem is accessed at most once in a run, by a read of the
\* file named by token 2, never before Config::new has returned a Config,
\* and no step changes the filesystem.
C8_OneReadOnlyAccess ==
    /\ [](/\ Len(fsLog) <= 1
          /\ \A i \in 1..Len(fsLog) :
                /\ Len(argv) >= 3
                /\ fsLog[i] = <<"read", argv[3]>>
          /\ pc \in {"start", "new", "run"} => fsLog = <<>>)
    /\ [][fs' = fs]_vars

\* The process has ended after reading a file whose name differs from the
\* query.
C8_Witness ==
    /\ Exited
    /\ Len(fsLog) = 1
    /\ argv[2] # argv[3]

\* C9 as stated: for a readable, valid-text file every call of run returns
\* exactly the file's contents, and repeated calls return the same.
C9_Original ==
    (runLog # <<>> /\ Readable(argv[3])) =>
        /\ \A i \in 1..Len(runLog) :
              /\ runLog[i].ret.kind = "Ok"
              /\ runLog[i].ret.val = fs[argv[3]].contents
        /\ \A i, j \in 1..Len(runLog) : runLog[i] = runLog[j]

\* C9, amended: for a readable, valid-text file every call of run reads
\* exactly the file's contents, writes them to standard output after the
\* label line and returns Ok(()), the contents being printed and not
\* returned; repeated calls with an equal Config and an unchanged file do
\* the same and yield identical output.
C9_ReadsAndPrintsContents ==
    (runLog # <<>> /\ Readable(argv[3])) =>
        /\ \A i \in 1..Len(runLog) :
              /\ runLog[i].ret = Ok(Unit)
              /\ runLog[i].contents = Some(fs[argv[3]].contents)
              /\ StreamText(runLog[i].out) =
                    "With text:\n" \o fs[argv[3]].contents \o "\n"
              /\ runLog[i].reads = <<argv[3]>>
        /\ \A i, j \in 1..Len(runLog) : runLog[i] = runLog[j]

\* run has been called twice on a readable file.
C9_Witness ==
    /\ Len(runLog) = 2
    /\ Readable(argv[3])

\* The three outcomes of a process that has ended.
ConfigErrorOutcome ==
    /\ ConfigFailed
    /\ runLog = <<>>
    /\ exitCode = 1

IoErrorOutcome ==
    /\ ~ConfigFailed
    /\ Len(runLog) = 1
    /\ runLog[1].ret.kind = "Err"
    /\ exitCode = 1

SuccessOutcome ==
    /\ ~ConfigFailed
    /\ Len(runLog) = 1
    /\ runLog[1].ret.kind = "Ok"
    /\ exitCode = 0

\* C10: every run ends, having called Config::new exactly once and read a
\* file at most once; the ended process is in exactly one of the three
\* outcomes and takes no further step.
C10_SingleShot ==
    /\ <>Exited
    /\ [](/\ Len(newLog) <= 1
          /\ Len(runLog) <= 1
          /\ Len(fsLog) <= 1
          /\ Exited =>
                /\ Len(newLog) = 1
                /\ ConfigErrorOutcome \/ IoErrorOutcome \/ SuccessOutcome
                /\ ~(ConfigErrorOutcome /\ IoErrorOutcome)
                /\ ~(ConfigErrorOutcome /\ SuccessOutcome)
                /\ ~(IoErrorOutcome /\ SuccessOutcome))
    /\ [][Exited => UNCHANGED vars]_vars

\* The process has ended with an I/O error after one read.
C10_Witness ==
    /\ Exited
    /\ IoErrorOutcome
    /\ Len(fsLog) = 1

\* C11: a Config is created at most once in a run, always whole (both
\* query and filename set); once created its fields never change; and the
\* process that built one has, when it ends, passed it to run exactly once.
C11_ConfigLifecycle ==
    /\ [](/\ Len(newLog) <= 1
          /\ config = NoValue \/ config \in [query : Tokens, filename : Tokens]
          /\ config # NoValue => newLog = <<Ok(config)>>
          /\ (config = NoValue /\ newLog # <<>>) => newLog[1].kind = "Err"
          /\ runLog # <<>> => config # NoValue
          /\ (Exited /\ config # NoValue) =>
                /\ Len(runLog) = 1
                /\ runLog[1].reads = <<config.filename>>)
    /\ [][config # NoValue => config' = config]_vars

\* The process has ended after building a Config and passing it to run.
C11_Witness ==
    /\ Exited
    /\ config = Config("hello", "poem.txt")
    /\ Len(runLog) = 1

\* C12: a.can_hold(b) is true exactly when a is strictly higher and
\* strictly wider than b; so if a.can_hold(b) then b.can_hold(a) is false,
\* and no rectangle can hold itself.
C12_CanHold ==
    /\ holds["self_other"] # None =>
          holds["self_other"] =
              Some(self.height > other.height /\ self.width > other.width)
    /\ holds["other_self"] # None =>
          holds["other_self"] =
              Some(other.height > self.height /\ other.width > self.width)
    /\ (holds["self_other"] = Some(TRUE) /\ holds["other_self"] # None) =>
          holds["other_self"] = Some(FALSE)
    /\ (holds["other_self"] = Some(TRUE) /\ holds["self_other"] # None) =>
          holds["self_other"] = Some(FALSE)
    /\ holds["self_self"] # None => holds["self_self"] = Some(FALSE)

\* The two tests' calls have been made on the tests' rectangles: the larger
\* holds the smaller, the smaller does not hold the larger.
C12_Witness ==
    /\ self = larger
    /\ other = smaller
    /\ holds["self_other"] = Some(TRUE)
    /\ holds["other_self"] = Some(FALSE)
    /\ holds["self_self"] = Some(FALSE)

\* C13: add(left, right) is the arithmetic sum left + right whenever the
\* sum fits the machine word (add(2, 2) = 4); add(left, right) and
\* add(right, left) agree; add(left, 0) and add(0, left) are left.
C13_Add ==
    /\ (sums["left_right"] # None /\ left + right <= UsizeMax) =>
          sums["left_right"] = Some(Value(left + right))
    /\ (sums["right_left"] # None /\ left + right <= UsizeMax) =>
          sums["right_left"] = Some(Value(left + right))
    /\ (sums["left_right"] # None /\ sums["right_left"] # None) =>
          sums["left_right"] = sums["right_left"]
    /\ sums["left_zero"] # None => sums["left_zero"] = Some(Value(left))
    /\ sums["zero_left"] # None => sums["zero_left"] = Some(Value(left))
    /\ (sums["left_right"] # None /\ left = 2 /\ right = 2) =>
          sums["left_right"] = Some(Value(4))

\* tests::it_works: add(2, 2) has returned 4, and 2 + 0 and 0 + 2 are 2.
C13_Witness ==
    /\ left = 2
    /\ right = 2
    /\ sums["left_right"] = Some(Value(4))
    /\ sums["right_left"] = Some(Value(4))
    /\ sums["left_zero"] = Some(Value(2))
    /\ sums["zero_left"] = Some(Value(2))

\* What a step has added to standard output, as text.
Printed == StreamText(SubSeq(stdout', Len(stdout) + 1, Len(stdout')))

\* The text a round prints before any comparison, for a guess that parsed.
RoundHead(n) == "Please input your guess.\n" \o "You guessed: " \o ToString(n) \o "\n"

\* What a round of the loop on its line must do, the secret being s.
RoundAsClaimed(line, s) ==
    LET parsed == parse(trim(line))
    IN  /\ parsed.kind = "Err" =>
              /\ pc' = "loop"
              /\ Printed = "Please input your guess.\n"
        /\ (parsed.kind = "Ok" /\ parsed.val < s) =>
              /\ pc' = "loop"
              /\ Printed = RoundHead(parsed.val) \o "Too small!\n"
        /\ (parsed.kind = "Ok" /\ parsed.val > s) =>
              /\ pc' = "loop"
              /\ Printed = RoundHead(parsed.val) \o "Too big!\n"
        /\ (parsed.kind = "Ok" /\ parsed.val = s) =>
              /\ pc' = "return"
              /\ Printed = RoundHead(parsed.val) \o "You win!\n"

\* C14: the secret number is drawn once, in 1..=100, before the loop and
\* never changes; the loop is left only by a round whose parsed guess
\* equals the secret, which prints "You win!"; a guess below the secret
\* prints "Too small!", one above prints "Too big!", and the loop goes on;
\* a line that does not parse prints no comparison and the loop goes on.
C14_GuessingGame ==
    /\ [](/\ pc = "start" <=> secret_number = None
          /\ secret_number # None => secret_number[1] \in 1..100
          /\ pc \in {"return", "exited"} =>
                /\ rounds # <<>>
                /\ guess = secret_number
                /\ parse(trim(rounds[Len(rounds)])) = Ok(secret_number[1]))
    /\ [][/\ secret_number # None => secret_number' = secret_number
          /\ rounds' # rounds =>
                /\ pc = "loop"
                /\ RoundAsClaimed(rounds'[Len(rounds')], secret_number[1])
          /\ (pc = "loop" /\ pc' # "loop") =>
                /\ rounds' # rounds
                /\ guess' = secret_number]_vars

\* With the secret 50, a line that is no number, a guess of 7 and a guess
\* of 50 have been read, and the game has ended.
C14_Witness ==
    /\ secret_number = Some(50)
    /\ rounds = << <<"a", "b", "c", "\n">>, <<" ", "7", " ", "\n">>, <<"5", "0", "\n">> >>
    /\ pc = "exited"
    /\ StreamText(stdout) =
          "Guess the number!\nThe secret number is: 50\n"
              \o "Please input your guess.\n"
              \o "Please input your guess.\nYou guessed: 7\nToo small!\n"
              \o "Please input your guess.\nYou guessed: 50\nYou win!\n"

====
